---- MODULE Spec2Model ----
(***************************************************************************)
(* Model of the phone line fixer: an Arduino sketch that samples the tip   *)
(* and ring voltages of a PBX line, classifies the line state from the     *)
(* most recent samples, and on the on-hook -> off-hook edge conditions the *)
(* line for a fixed dwell.  Two versions of the sketch are modelled:       *)
(*   "V2"  phoneline_fixer_V2.0.ino  (capacitor across the line, 750 ms)   *)
(*   "V1"  unnamed/part_000, V1.0    (isolate CO + 500 ohm shunt, 600 ms)  *)
(* Time passes only inside delay(); the line (the environment) may change  *)
(* its level while the sketch is waiting in a delay().                     *)
(***************************************************************************)
EXTENDS Integers, Sequences, FiniteSets, TLC

\* ------------------------------------------------------------------------
\* Bounds of the model (not program constants)
\* ------------------------------------------------------------------------
\* milliseconds of history kept for debugging (2000 in the V2.0 source)
HistoryMsec == 64
\* number of loop() cycles explored after setup()
MaxCycles == 14
\* number of level changes of the line explored
MaxLineChanges == 2
\* number of loop() cycles explored where two actuation sequences are to
\* be seen (the second needs more than 2 * NUM_SAMPLES cycles after the first)
MaxLockCycles == 22

\* ------------------------------------------------------------------------
\* Program constants
\* ------------------------------------------------------------------------
SAMPLE_INTERVAL == 5
NUM_SAMPLES == 50 \div SAMPLE_INTERVAL
NUM_HISTORY == HistoryMsec \div SAMPLE_INTERVAL
MAXSAMPLES == 10
ADC_FULL_SCALE == 1024
DWELL_V2 == 750
DWELL_V1 == 600

Versions == {"V1", "V2"}
line_state_t == {"ON_HOOK", "OFF_HOOK", "RINGING"}
PinNames == {"LED", "DISCONNECT_SHUNT", "DISCONNECT_CO_PBX_RING",
             "DISCONNECT_CO_PBX_TIP", "DISCONNECT_CO_PBX"}

\* capacity of each conductor's sample array in the given version
HistLen(v) == IF v = "V2" THEN NUM_HISTORY ELSE MAXSAMPLES
\* blocking wait of the actuation sequence in the given version
DwellMsec(v) == IF v = "V2" THEN DWELL_V2 ELSE DWELL_V1

\* ------------------------------------------------------------------------
\* Voltage acquisition: the scale/bias transform of read_voltage
\*   Vout = aval * Vref / 1024
\*   Vin  = (Vout * (1/RA + 1/RB + 1/RC) - Vbias/RB) * RA
\* written as the exact rational  Vin = aval * GAIN_NUM/GAIN_DEN - OFFSET,
\* OFFSET = OFFSET_INT + OFFSET_NUM/GAIN_DEN.
\*   V2.0: Vref = Vbias = 5.0, RA = 100k, RB = 8.2k, RC = 9.1k
\*         gain = 5/1024 * (1 + 100/8.2 + 100/9.1) = 451155/3820544
\*         offset = 500/8.2 = 2500/41 = 60 + 3727360/3820544
\*   V1.0: Vref = Vbias = 4.9, RA = 108k, RB = 7.15k, RC = 158k
\*         gain = 4.9/1024 * (1 + 108/7.15 + 108/158) = 9293291/115681280
\*         offset = 4.9*108/7.15 = 10584/143 = 74 + 1617920/115681280
\* The 32-bit float evaluation of the sketch gives the same rounded volts
\* as the exact rational for every ADC code 0..1023 in both versions.
\* ------------------------------------------------------------------------
GAIN_NUM_V2 == 451155
GAIN_DEN_V2 == 3820544
OFFSET_INT_V2 == 60
OFFSET_NUM_V2 == 3727360
GAIN_NUM_V1 == 9293291
GAIN_DEN_V1 == 115681280
OFFSET_INT_V1 == 74
OFFSET_NUM_V1 == 1617920

GainNum(v) == IF v = "V2" THEN GAIN_NUM_V2 ELSE GAIN_NUM_V1
GainDen(v) == IF v = "V2" THEN GAIN_DEN_V2 ELSE GAIN_DEN_V1
OffsetInt(v) == IF v = "V2" THEN OFFSET_INT_V2 ELSE OFFSET_INT_V1
OffsetNum(v) == IF v = "V2" THEN OFFSET_NUM_V2 ELSE OFFSET_NUM_V1

\* a*n = q*d + r with 0 <= r < d, computed without leaving 32-bit integers
RECURSIVE MulDivMod(_, _, _)
MulDivMod(a, n, d) ==
    IF a = 0 THEN [q |-> 0, r |-> 0]
    ELSE LET h == MulDivMod(a \div 2, n, d)
             r2 == 2 * h.r + (a % 2) * n
         IN  [q |-> 2 * h.q + (r2 \div d), r |-> r2 % d]

\* Vin as integer part plus a fraction num/den with 0 <= num < den
Vin(v, aval) ==
    LET g == MulDivMod(aval, GainNum(v), GainDen(v))
        f == g.r - OffsetNum(v)
    IN  IF f >= 0
        THEN [int |-> g.q - OffsetInt(v), num |-> f, den |-> GainDen(v)]
        ELSE [int |-> g.q - OffsetInt(v) - 1, num |-> f + GainDen(v),
              den |-> GainDen(v)]

\* variant of the rounding: (int) Vin, truncation towards zero
RoundedVolts_truncated(v, aval) ==
    LET x == Vin(v, aval)
    IN  IF x.int >= 0 THEN x.int
        ELSE x.int + (IF x.num > 0 THEN 1 ELSE 0)

\* int V = Vin >= 0 ? (int)(Vin + 0.5) : (int)(Vin - 0.5)
RoundedVolts(v, aval) ==
    LET x == Vin(v, aval)
    IN  IF x.int >= 0
        THEN x.int + (IF 2 * x.num >= x.den THEN 1 ELSE 0)
        ELSE x.int + (IF 2 * x.num > x.den THEN 1 ELSE 0)

\* conversion of an int to int8_t (the element type of history[] in V2.0)
ToInt8(x) == ((x + 128) % 256) - 128

\* variant of the element type: history[] declared unsigned (uint8_t)
Stored_unsigned(v, volts) == IF v = "V2" THEN volts % 256 ELSE volts

\* the value stored in the sample array: int8_t in V2.0, int in V1.0
Stored(v, volts) == IF v = "V2" THEN ToInt8(volts) ELSE volts

\* ------------------------------------------------------------------------
\* The environment: levels of the line as the pair of ADC codes the two
\* analog ports deliver (tip on A0, ring on A1)
\* ------------------------------------------------------------------------
\* V2.0 codes: tip 0 V / ring -45 V, tip -20 / ring -25, tip 30 / ring -50,
\*             tip -50 / ring 30, tip 0 / ring -28
OnHookLevel(v) ==
    IF v = "V2" THEN [tip |-> 516, ring |-> 135] ELSE [tip |-> 920, ring |-> 360]
OffHookLevel(v) ==
    IF v = "V2" THEN [tip |-> 346, ring |-> 304] ELSE [tip |-> 672, ring |-> 610]
RingPosLevel(v) ==
    IF v = "V2" THEN [tip |-> 770, ring |-> 92] ELSE [tip |-> 920, ring |-> 25]
RingNegLevel(v) ==
    IF v = "V2" THEN [tip |-> 92, ring |-> 770] ELSE [tip |-> 920, ring |-> 25]
AmbiguousLevel(v) ==
    IF v = "V2" THEN [tip |-> 516, ring |-> 279] ELSE [tip |-> 920, ring |-> 548]
Levels(v) == {OnHookLevel(v), OffHookLevel(v), RingPosLevel(v),
              RingNegLevel(v), AmbiguousLevel(v)}

\* ------------------------------------------------------------------------
\* State
\* ------------------------------------------------------------------------
VARIABLES
    ver,             \* which sketch is flashed: "V1" or "V2"
    pc,              \* the statement the sketch executes next
    i,               \* loop counter of the initial fill in setup()
    pbx_tip,         \* [nextslot, history] of the tip conductor
    pbx_ring,        \* [nextslot, history] of the ring conductor
    count,           \* number of read_voltage calls
    connected,       \* V2.0 flag set by do_connect
    shunted,         \* V2.0 flag set by do_shunt
    pin,             \* last level written to each output pin ("Z": none)
    last_linestate,  \* the held line state
    new_linestate,   \* loop()'s local: the decision of this cycle
    line,            \* environment: the ADC codes the line delivers now
    changes,         \* environment: level changes of the line so far
    line0,           \* observer: the level of the line at power-up
    prev_line,       \* observer: the level of the line before its last change
    dwell_changes,   \* observer: level changes made during a dwell
    stable,          \* observer: cycles sampled since the last level change
    fired,           \* observer: actuation sequences started so far
    fired_at,        \* observer: value of count when the last actuation
                     \* sequence started (0: none started yet)
    engaged_ms,      \* observer: msec elapsed since the shunt was put in
    acquired         \* observer: per slot, the number of the read_voltage
                     \* call that filled it (0: not filled since power-up)

vars == <<ver, pc, i, pbx_tip, pbx_ring, count, connected, shunted, pin,
          last_linestate, new_linestate, line, changes, line0,
          prev_line, dwell_changes, stable, fired, fired_at, engaged_ms,
          acquired>>

prog_vars == <<pbx_tip, pbx_ring, count, connected, shunted, pin,
               last_linestate, new_linestate>>
env_vars == <<line, changes, line0, prev_line, dwell_changes, stable,
              acquired, fired_at>>

\* static struct pbx_line_t ... = {name, port, 0}: cursor 0, samples zeroed
pbx_line_t(v) == [nextslot |-> 0, history |-> [k \in 0..(HistLen(v) - 1) |-> 0]]

\* digitalWrite(name, val) on the pin map
digitalWrite(p, name, val) == [p EXCEPT ![name] = IF val THEN "HIGH" ELSE "LOW"]

\* the conditioning element (shunt or capacitor) is across the line:
\* DISCONNECT_SHUNT is "high to disconnect"
ShuntIn == pin["DISCONNECT_SHUNT"] = "LOW"

\* variant of the cursor advance: wraps one slot early
read_voltage_wrap_early(v, p, aval) ==
    [nextslot |-> IF p.nextslot + 2 >= HistLen(v) THEN 0 ELSE p.nextslot + 1,
     history |-> [p.history EXCEPT ![p.nextslot] = Stored(v, RoundedVolts(v, aval))]]

\* read_voltage(p) on analog code aval: store rounded volts, advance cursor
read_voltage(v, p, aval) ==
    [nextslot |-> IF p.nextslot + 1 >= HistLen(v) THEN 0 ELSE p.nextslot + 1,
     history |-> [p.history EXCEPT ![p.nextslot] = Stored(v, RoundedVolts(v, aval))]]

\* the slot at the cursor of p is filled by read_voltage call number n
Acquire(a, who, p, n) == [a EXCEPT ![who][p.nextslot] = n]

\* ------------------------------------------------------------------------
\* Line-state classifier
\* ------------------------------------------------------------------------
\* variants of the band tests: upper edge of the on-hook band excluded
Accumulate_onhook_edge(acc, vdelta) ==
    [onhook |-> acc.onhook /\ ~(vdelta < 35 \/ vdelta >= 60),
     offhook |-> acc.offhook /\ ~(vdelta < -10 \/ vdelta > 20),
     ringing_samples |-> acc.ringing_samples +
         (IF vdelta < -70 \/ vdelta > 70 THEN 1 ELSE 0)]

\* lower edge of the off-hook band excluded
Accumulate_offhook_edge(acc, vdelta) ==
    [onhook |-> acc.onhook /\ ~(vdelta < 35 \/ vdelta > 60),
     offhook |-> acc.offhook /\ ~(vdelta <= -10 \/ vdelta > 20),
     ringing_samples |-> acc.ringing_samples +
         (IF vdelta < -70 \/ vdelta > 70 THEN 1 ELSE 0)]

\* only the positive half of the ring signal counted
Accumulate_ring_positive(acc, vdelta) ==
    [onhook |-> acc.onhook /\ ~(vdelta < 35 \/ vdelta > 60),
     offhook |-> acc.offhook /\ ~(vdelta < -10 \/ vdelta > 20),
     ringing_samples |-> acc.ringing_samples +
         (IF vdelta > 70 THEN 1 ELSE 0)]

\* the flags overwritten by each sample instead of accumulated over the window
Accumulate_no_window(acc, vdelta) ==
    [onhook |-> ~(vdelta < 35 \/ vdelta > 60),
     offhook |-> ~(vdelta < -10 \/ vdelta > 20),
     ringing_samples |-> acc.ringing_samples +
         (IF vdelta < -70 \/ vdelta > 70 THEN 1 ELSE 0)]

\* the off-hook band widened into the on-hook band
Accumulate_overlap(acc, vdelta) ==
    [onhook |-> acc.onhook /\ ~(vdelta < 35 \/ vdelta > 60),
     offhook |-> acc.offhook /\ ~(vdelta < -10 \/ vdelta > 40),
     ringing_samples |-> acc.ringing_samples +
         (IF vdelta < -70 \/ vdelta > 70 THEN 1 ELSE 0)]

\* V2.0 getlinestate, body of the for loop: the three tests on one vdelta
Accumulate(acc, vdelta) ==
    [onhook |-> acc.onhook /\ ~(vdelta < 35 \/ vdelta > 60),
     offhook |-> acc.offhook /\ ~(vdelta < -10 \/ vdelta > 20),
     ringing_samples |-> acc.ringing_samples +
         (IF vdelta < -70 \/ vdelta > 70 THEN 1 ELSE 0)]

\* variant of the step back: slot 0 is skipped
PrevSlot_skip_zero(ndx) == IF ndx - 1 <= 0 THEN NUM_HISTORY - 1 ELSE ndx - 1

\* if (--ndx < 0) ndx = NUM_HISTORY - 1: go to the previous sample
PrevSlot(ndx) == IF ndx - 1 < 0 THEN NUM_HISTORY - 1 ELSE ndx - 1

\* V2.0 getlinestate, the for loop i = 0..NUM_SAMPLES-1, walking ndx
\* backwards from the cursor with wrap
RECURSIVE ScanWindow(_, _, _, _, _)
ScanWindow(n, ndx, tip, ring, acc) ==
    IF n >= NUM_SAMPLES THEN acc
    ELSE LET prev == PrevSlot(ndx)
             vdelta == tip.history[prev] - ring.history[prev]
         IN  ScanWindow(n + 1, prev, tip, ring, Accumulate(acc, vdelta))

\* variants of the decision: an ambiguous window falls back to ON_HOOK
Decide_default_onhook(acc, last) ==
    IF acc.onhook THEN "ON_HOOK"
    ELSE IF acc.offhook THEN "OFF_HOOK"
    ELSE IF acc.ringing_samples >= 2 THEN "RINGING"
    ELSE "ON_HOOK"

\* ringing needs more than two samples
Decide_ring_three(acc, last) ==
    IF acc.onhook THEN "ON_HOOK"
    ELSE IF acc.offhook THEN "OFF_HOOK"
    ELSE IF acc.ringing_samples > 2 THEN "RINGING"
    ELSE last

\* a single ringing sample is enough
Decide_ring_one(acc, last) ==
    IF acc.onhook THEN "ON_HOOK"
    ELSE IF acc.offhook THEN "OFF_HOOK"
    ELSE IF acc.ringing_samples >= 1 THEN "RINGING"
    ELSE last

\* the strict priority order of the decision
Decide(acc, last) ==
    IF acc.onhook THEN "ON_HOOK"
    ELSE IF acc.offhook THEN "OFF_HOOK"
    ELSE IF acc.ringing_samples >= 2 THEN "RINGING"
    ELSE last

\* the slots the for loop of getlinestate reads, in the order it reads them
RECURSIVE SlotsRead(_, _)
SlotsRead(n, ndx) ==
    IF n >= NUM_SAMPLES THEN << >>
    ELSE LET prev == PrevSlot(ndx)
         IN  <<prev>> \o SlotsRead(n + 1, prev)

\* show_samples(p): the slots whose samples it prints, in printing order
\* (a do-while loop from nextslot - NUM_SAMPLES up to the cursor)
RECURSIVE ShowWalk(_, _)
ShowWalk(p, ndx) ==
    LET nxt == IF ndx + 1 >= NUM_HISTORY THEN 0 ELSE ndx + 1
    IN  <<ndx>> \o (IF nxt # p.nextslot THEN ShowWalk(p, nxt) ELSE << >>)

show_samples(p) ==
    LET ndx == p.nextslot - NUM_SAMPLES
    IN  ShowWalk(p, IF ndx < 0 THEN ndx + NUM_HISTORY ELSE ndx)

\* show_history(p): the slots whose samples it prints, from the cursor on
show_history(p) == ShowWalk(p, p.nextslot)

getlinestate(tip, ring, last) ==
    Decide(ScanWindow(0, ring.nextslot, tip, ring,
             [onhook |-> TRUE, offhook |-> TRUE, ringing_samples |-> 0]), last)

\* V1.0 newlinestate: per-conductor bands over all MAXSAMPLES samples
RECURSIVE ScanSamples(_, _, _, _)
ScanSamples(n, tip, ring, acc) ==
    IF n >= MAXSAMPLES THEN acc
    ELSE LET v_ring == ring.history[n]
             v_tip == tip.history[n]
         IN  ScanSamples(n + 1, tip, ring,
               [onhook |-> acc.onhook /\
                    ~(v_ring > -40 \/ v_ring < -60 \/ v_tip > 10 \/ v_tip < -10),
                offhook |-> acc.offhook /\
                    ~(v_ring > -15 \/ v_ring < -40 \/ v_tip > -10 \/ v_tip < -30),
                ringing_samples |-> acc.ringing_samples +
                    (IF v_ring < -70 /\ v_tip > -10 THEN 1 ELSE 0)])

newlinestate(tip, ring, last) ==
    Decide(ScanSamples(0, tip, ring,
             [onhook |-> TRUE, offhook |-> TRUE, ringing_samples |-> 0]), last)

\* ------------------------------------------------------------------------
\* Initial state: power-up, before setup() runs
\* ------------------------------------------------------------------------
Init ==
    /\ ver \in Versions
    /\ pc = "setup"
    /\ i = 0
    /\ pbx_tip = pbx_line_t(ver)
    /\ pbx_ring = pbx_line_t(ver)
    /\ count = 0
    /\ connected = FALSE
    /\ shunted = FALSE
    /\ pin = [n \in PinNames |-> "Z"]
    /\ last_linestate = "ON_HOOK"
    /\ new_linestate = "undef"
    /\ line \in Levels(ver)
    /\ line0 = line
    /\ prev_line = line
    /\ changes = 0
    /\ dwell_changes = 0
    /\ stable = 0
    /\ fired = 0
    /\ fired_at = 0
    /\ engaged_ms = 0
    /\ acquired = [c \in {"tip", "ring"} |-> [k \in 0..(HistLen(ver) - 1) |-> 0]]

\* number of loop() cycles whose two samples have been acquired
Cycles == (count - 2 * HistLen(ver)) \div 2

\* ------------------------------------------------------------------------
\* setup()
\* ------------------------------------------------------------------------
\* V2.0 lines 214-220: pinMode of the outputs, LED low
SetupOutputs ==
    /\ pc = "setup" /\ ver = "V2"
    /\ pin' = digitalWrite(pin, "LED", FALSE)
    /\ pc' = "setup_shunt"
    /\ UNCHANGED <<ver, i, pbx_tip, pbx_ring, count, connected, shunted,
                   last_linestate, new_linestate, fired, engaged_ms>>
    /\ UNCHANGED env_vars

\* do_shunt(put_shunt_in)
do_shunt(put_shunt_in) ==
    /\ pin' = digitalWrite(pin, "DISCONNECT_SHUNT", ~put_shunt_in)
    /\ shunted' = put_shunt_in

\* do_connect(connect)
do_connect(connect) ==
    /\ pin' = digitalWrite(digitalWrite(pin, "DISCONNECT_CO_PBX_TIP", ~connect),
                           "DISCONNECT_CO_PBX_RING", ~connect)
    /\ connected' = connect

\* V2.0 line 232: do_shunt(false), the capacitor is out
SetupShunt ==
    /\ pc = "setup_shunt"
    /\ do_shunt(FALSE)
    /\ pc' = "setup_connect"
    /\ UNCHANGED <<ver, i, pbx_tip, pbx_ring, count, connected,
                   last_linestate, new_linestate, fired, engaged_ms>>
    /\ UNCHANGED env_vars

\* V2.0 line 233: do_connect(true)
SetupConnect ==
    /\ pc = "setup_connect"
    /\ do_connect(TRUE)
    /\ pc' = "fill_ring"
    /\ UNCHANGED <<ver, i, pbx_tip, pbx_ring, count, shunted,
                   last_linestate, new_linestate, fired, engaged_ms>>
    /\ UNCHANGED env_vars

\* V1.0 lines 214-232: LED low, shunt out, CO and PBX connected
SetupOutputsV1 ==
    /\ pc = "setup" /\ ver = "V1"
    /\ pin' = digitalWrite(digitalWrite(digitalWrite(pin, "LED", FALSE),
                  "DISCONNECT_SHUNT", TRUE), "DISCONNECT_CO_PBX", FALSE)
    /\ pc' = "fill_ring"
    /\ UNCHANGED <<ver, i, pbx_tip, pbx_ring, count, connected, shunted,
                   last_linestate, new_linestate, fired, engaged_ms>>
    /\ UNCHANGED env_vars

\* initial fill of the sample arrays: read_voltage(&pbx_ring)
FillRing ==
    /\ pc = "fill_ring"
    /\ pbx_ring' = read_voltage(ver, pbx_ring, line.ring)
    /\ count' = count + 1
    /\ acquired' = Acquire(acquired, "ring", pbx_ring, count + 1)
    /\ pc' = "fill_tip"
    /\ UNCHANGED <<ver, i, pbx_tip, connected, shunted, pin,
                   last_linestate, new_linestate, fired, engaged_ms>>
    /\ UNCHANGED <<line, changes, line0, prev_line, dwell_changes, stable,
                   fired_at>>

\* variant of the initial fill: a single pass of the for loop
FillTip_once ==
    /\ pc = "fill_tip"
    /\ pbx_tip' = read_voltage(ver, pbx_tip, line.tip)
    /\ count' = count + 1
    /\ acquired' = Acquire(acquired, "tip", pbx_tip, count + 1)
    /\ i' = i + 1
    /\ pc' = "setup_end"
    /\ UNCHANGED <<ver, pbx_ring, connected, shunted, pin,
                   last_linestate, new_linestate, fired, engaged_ms>>
    /\ UNCHANGED <<line, changes, line0, prev_line, dwell_changes, stable,
                   fired_at>>

\* initial fill of the sample arrays: read_voltage(&pbx_tip), then ++i
FillTip ==
    /\ pc = "fill_tip"
    /\ pbx_tip' = read_voltage(ver, pbx_tip, line.tip)
    /\ count' = count + 1
    /\ i' = i + 1
    /\ acquired' = Acquire(acquired, "tip", pbx_tip, count + 1)
    /\ pc' = IF i + 1 < HistLen(ver) THEN "fill_ring" ELSE "setup_end"
    /\ UNCHANGED <<ver, pbx_ring, connected, shunted, pin,
                   last_linestate, new_linestate, fired, engaged_ms>>
    /\ UNCHANGED <<line, changes, line0, prev_line, dwell_changes, stable,
                   fired_at>>

\* variant of the end of setup(): the held state is measured from the
\* warm-up samples instead of assumed
SetupEnd_measured ==
    /\ pc = "setup_end"
    /\ last_linestate' = IF ver = "V2"
                         THEN getlinestate(pbx_tip, pbx_ring, "ON_HOOK")
                         ELSE newlinestate(pbx_tip, pbx_ring, "ON_HOOK")
    /\ pc' = "read_ring"
    /\ UNCHANGED <<ver, i, pbx_tip, pbx_ring, count, connected, shunted, pin,
                   new_linestate, fired, engaged_ms>>
    /\ UNCHANGED env_vars

\* last_linestate = ON_HOOK; setup() returns and loop() is entered
SetupEnd ==
    /\ pc = "setup_end"
    /\ last_linestate' = "ON_HOOK"
    /\ pc' = "read_ring"
    /\ UNCHANGED <<ver, i, pbx_tip, pbx_ring, count, connected, shunted, pin,
                   new_linestate, fired, engaged_ms>>
    /\ UNCHANGED env_vars

\* ------------------------------------------------------------------------
\* loop(): one sampling cycle
\* ------------------------------------------------------------------------
\* variant of the cycle: the ring conductor is not sampled
ReadRing_skipped ==
    /\ pc = "read_ring"
    /\ new_linestate' = "undef"
    /\ pc' = "read_tip"
    /\ UNCHANGED <<ver, i, pbx_tip, pbx_ring, count, connected, shunted, pin,
                   last_linestate, fired, engaged_ms>>
    /\ UNCHANGED env_vars

\* read_voltage(&pbx_ring), first statement of loop()
ReadRing ==
    /\ pc = "read_ring"
    /\ pbx_ring' = read_voltage(ver, pbx_ring, line.ring)
    /\ count' = count + 1
    /\ acquired' = Acquire(acquired, "ring", pbx_ring, count + 1)
    /\ new_linestate' = "undef"
    /\ pc' = "read_tip"
    /\ UNCHANGED <<ver, i, pbx_tip, connected, shunted, pin, last_linestate,
                   fired, engaged_ms>>
    /\ UNCHANGED <<line, changes, line0, prev_line, dwell_changes, stable,
                   fired_at>>

\* read_voltage(&pbx_tip)
ReadTip ==
    /\ pc = "read_tip"
    /\ pbx_tip' = read_voltage(ver, pbx_tip, line.tip)
    /\ count' = count + 1
    /\ acquired' = Acquire(acquired, "tip", pbx_tip, count + 1)
    /\ stable' = stable + 1
    /\ pc' = "classify"
    /\ UNCHANGED <<ver, i, pbx_ring, connected, shunted, pin, last_linestate,
                   new_linestate, fired, engaged_ms>>
    /\ UNCHANGED <<line, changes, line0, prev_line, dwell_changes, fired_at>>

\* variant of the classification: getlinestate() stores its decision in the
\* held state itself
Classify_updates_held ==
    /\ pc = "classify"
    /\ new_linestate' = IF ver = "V2"
                        THEN getlinestate(pbx_tip, pbx_ring, last_linestate)
                        ELSE newlinestate(pbx_tip, pbx_ring, last_linestate)
    /\ last_linestate' = new_linestate'
    /\ pc' = "compare"
    /\ UNCHANGED <<ver, i, pbx_tip, pbx_ring, count, connected, shunted, pin,
                   fired, engaged_ms>>
    /\ UNCHANGED env_vars

\* new_linestate = getlinestate()   (newlinestate() in V1.0)
Classify ==
    /\ pc = "classify"
    /\ new_linestate' = IF ver = "V2"
                        THEN getlinestate(pbx_tip, pbx_ring, last_linestate)
                        ELSE newlinestate(pbx_tip, pbx_ring, last_linestate)
    /\ pc' = "compare"
    /\ UNCHANGED <<ver, i, pbx_tip, pbx_ring, count, connected, shunted, pin,
                   last_linestate, fired, engaged_ms>>
    /\ UNCHANGED env_vars

\* if (new_linestate != last_linestate)
Changed(last, new) == new # last

\* variant of the edge test: any change into OFF_HOOK
Trigger_any_to_offhook(last, new) == new = "OFF_HOOK"

\* if (last_linestate == ON_HOOK && new_linestate == OFF_HOOK)
Trigger(last, new) == last = "ON_HOOK" /\ new = "OFF_HOOK"

\* variant of the tests: triggered by the OFF_HOOK level, not by the edge
Compare_level ==
    /\ pc = "compare"
    /\ pc' = IF new_linestate = "OFF_HOOK" THEN "led_on"
             ELSE IF Changed(last_linestate, new_linestate) THEN "update"
             ELSE "delay"
    /\ fired' = IF pc' = "led_on" THEN fired + 1 ELSE fired
    /\ fired_at' = IF pc' = "led_on" THEN count ELSE fired_at
    /\ UNCHANGED <<ver, i, engaged_ms>>
    /\ UNCHANGED prog_vars
    /\ UNCHANGED <<line, changes, line0, prev_line, dwell_changes, stable,
                   acquired>>

\* the two nested tests of loop() on the decision of this cycle
Compare ==
    /\ pc = "compare"
    /\ pc' = IF Changed(last_linestate, new_linestate)
             THEN IF Trigger(last_linestate, new_linestate)
                  THEN "led_on" ELSE "update"
             ELSE "delay"
    /\ fired' = IF pc' = "led_on" THEN fired + 1 ELSE fired
    /\ fired_at' = IF pc' = "led_on" THEN count ELSE fired_at
    /\ UNCHANGED <<ver, i, engaged_ms>>
    /\ UNCHANGED prog_vars
    /\ UNCHANGED <<line, changes, line0, prev_line, dwell_changes, stable,
                   acquired>>

\* digitalWrite(LED, HIGH)
LedOn ==
    /\ pc = "led_on"
    /\ pin' = digitalWrite(pin, "LED", TRUE)
    /\ pc' = "shunt_in"
    /\ UNCHANGED <<ver, i, pbx_tip, pbx_ring, count, connected, shunted,
                   last_linestate, new_linestate, fired, engaged_ms>>
    /\ UNCHANGED env_vars

\* variant of the engagement: the strategy of do_disconnect(), the shunt is
\* put in and CO and PBX are disconnected
PutShuntIn_isolating ==
    /\ pc = "shunt_in" /\ ver = "V2"
    /\ pin' = digitalWrite(digitalWrite(digitalWrite(pin,
                  "DISCONNECT_SHUNT", FALSE),
                  "DISCONNECT_CO_PBX_TIP", TRUE),
                  "DISCONNECT_CO_PBX_RING", TRUE)
    /\ shunted' = TRUE
    /\ connected' = FALSE
    /\ engaged_ms' = 0
    /\ pc' = "dwell"
    /\ UNCHANGED <<ver, i, pbx_tip, pbx_ring, count,
                   last_linestate, new_linestate, fired>>
    /\ UNCHANGED env_vars

\* V2.0: do_shunt(true), put capacitor in
PutShuntIn ==
    /\ pc = "shunt_in" /\ ver = "V2"
    /\ do_shunt(TRUE)
    /\ engaged_ms' = 0
    /\ pc' = "dwell"
    /\ UNCHANGED <<ver, i, pbx_tip, pbx_ring, count, connected,
                   last_linestate, new_linestate, fired>>
    /\ UNCHANGED env_vars

\* V1.0: digitalWrite(DISCONNECT_SHUNT, false), put CO shunt in
PutShuntInV1 ==
    /\ pc = "shunt_in" /\ ver = "V1"
    /\ pin' = digitalWrite(pin, "DISCONNECT_SHUNT", FALSE)
    /\ engaged_ms' = 0
    /\ pc' = "disconnect"
    /\ UNCHANGED <<ver, i, pbx_tip, pbx_ring, count, connected, shunted,
                   last_linestate, new_linestate, fired>>
    /\ UNCHANGED env_vars

\* V1.0: digitalWrite(DISCONNECT_CO_PBX, true), disconnect CO and PBX
DisconnectV1 ==
    /\ pc = "disconnect"
    /\ pin' = digitalWrite(pin, "DISCONNECT_CO_PBX", TRUE)
    /\ pc' = "dwell"
    /\ UNCHANGED <<ver, i, pbx_tip, pbx_ring, count, connected, shunted,
                   last_linestate, new_linestate, fired, engaged_ms>>
    /\ UNCHANGED env_vars

\* msec pass while the sketch blocks in delay(d)
Elapse(d) == engaged_ms' = IF ShuntIn THEN engaged_ms + d ELSE engaged_ms

\* variant of the wait: one sample interval only
Dwell_short ==
    /\ pc = "dwell"
    /\ Elapse(SAMPLE_INTERVAL)
    /\ pc' = IF ver = "V2" THEN "shunt_out" ELSE "connect"
    /\ UNCHANGED <<ver, i, fired>>
    /\ UNCHANGED prog_vars
    /\ UNCHANGED env_vars

\* variant of the wait: the line is sampled while waiting
Dwell_sampling ==
    /\ pc = "dwell"
    /\ Elapse(DwellMsec(ver))
    /\ pbx_ring' = read_voltage(ver, pbx_ring, line.ring)
    /\ pbx_tip' = read_voltage(ver, pbx_tip, line.tip)
    /\ count' = count + 2
    /\ acquired' = Acquire(Acquire(acquired, "ring", pbx_ring, count + 1),
                           "tip", pbx_tip, count + 2)
    /\ pc' = IF ver = "V2" THEN "shunt_out" ELSE "connect"
    /\ UNCHANGED <<ver, i, fired, connected, shunted, pin, last_linestate,
                   new_linestate>>
    /\ UNCHANGED <<line, changes, line0, prev_line, dwell_changes, stable,
                   fired_at>>

\* delay(750) in V2.0, delay(600) in V1.0: a blocking wait
Dwell ==
    /\ pc = "dwell"
    /\ Elapse(DwellMsec(ver))
    /\ pc' = IF ver = "V2" THEN "shunt_out" ELSE "connect"
    /\ UNCHANGED <<ver, i, fired>>
    /\ UNCHANGED prog_vars
    /\ UNCHANGED env_vars

\* variant of the reconnection: the shunt is taken out while CO and PBX are
\* still disconnected
ConnectV1_shunt_first ==
    /\ pc = "connect"
    /\ pin' = digitalWrite(pin, "DISCONNECT_SHUNT", TRUE)
    /\ pc' = "shunt_out"
    /\ UNCHANGED <<ver, i, pbx_tip, pbx_ring, count, connected, shunted,
                   last_linestate, new_linestate, fired, engaged_ms>>
    /\ UNCHANGED env_vars

\* V1.0: digitalWrite(DISCONNECT_CO_PBX, false), connect CO and PBX
ConnectV1 ==
    /\ pc = "connect"
    /\ pin' = digitalWrite(pin, "DISCONNECT_CO_PBX", FALSE)
    /\ pc' = "shunt_out"
    /\ UNCHANGED <<ver, i, pbx_tip, pbx_ring, count, connected, shunted,
                   last_linestate, new_linestate, fired, engaged_ms>>
    /\ UNCHANGED env_vars

\* variant of the disengagement: the capacitor is left in
TakeShuntOut_left_in ==
    /\ pc = "shunt_out" /\ ver = "V2"
    /\ pc' = "led_off"
    /\ UNCHANGED <<ver, i, pbx_tip, pbx_ring, count, connected, shunted, pin,
                   last_linestate, new_linestate, fired, engaged_ms>>
    /\ UNCHANGED env_vars

\* V2.0: do_shunt(false), take capacitor out
TakeShuntOut ==
    /\ pc = "shunt_out" /\ ver = "V2"
    /\ do_shunt(FALSE)
    /\ pc' = "led_off"
    /\ UNCHANGED <<ver, i, pbx_tip, pbx_ring, count, connected,
                   last_linestate, new_linestate, fired, engaged_ms>>
    /\ UNCHANGED env_vars

\* V1.0: digitalWrite(DISCONNECT_SHUNT, true), take CO shunt out
TakeShuntOutV1 ==
    /\ pc = "shunt_out" /\ ver = "V1"
    /\ pin' = digitalWrite(pin, "DISCONNECT_SHUNT", TRUE)
    /\ pc' = "led_off"
    /\ UNCHANGED <<ver, i, pbx_tip, pbx_ring, count, connected, shunted,
                   last_linestate, new_linestate, fired, engaged_ms>>
    /\ UNCHANGED env_vars

\* digitalWrite(LED, LOW)
LedOff ==
    /\ pc = "led_off"
    /\ pin' = digitalWrite(pin, "LED", FALSE)
    /\ pc' = "update"
    /\ UNCHANGED <<ver, i, pbx_tip, pbx_ring, count, connected, shunted,
                   last_linestate, new_linestate, fired, engaged_ms>>
    /\ UNCHANGED env_vars

\* variant of the update: skipped after an actuation sequence
UpdateState_not_after_sequence ==
    /\ pc = "update"
    /\ last_linestate' = IF Trigger(last_linestate, new_linestate)
                         THEN last_linestate ELSE new_linestate
    /\ pc' = "delay"
    /\ UNCHANGED <<ver, i, pbx_tip, pbx_ring, count, connected, shunted, pin,
                   new_linestate, fired, engaged_ms>>
    /\ UNCHANGED env_vars

\* last_linestate = new_linestate
UpdateState ==
    /\ pc = "update"
    /\ last_linestate' = new_linestate
    /\ pc' = "delay"
    /\ UNCHANGED <<ver, i, pbx_tip, pbx_ring, count, connected, shunted, pin,
                   new_linestate, fired, engaged_ms>>
    /\ UNCHANGED env_vars

\* delay(SAMPLE_INTERVAL); loop() returns and is called again
Delay ==
    /\ pc = "delay"
    /\ Cycles < MaxCycles
    /\ Elapse(SAMPLE_INTERVAL)
    /\ pc' = "read_ring"
    /\ UNCHANGED <<ver, i, fired>>
    /\ UNCHANGED prog_vars
    /\ UNCHANGED env_vars

\* ------------------------------------------------------------------------
\* The environment: the line changes its level while the sketch waits
\* ------------------------------------------------------------------------
Waiting == pc \in {"delay", "dwell"}

LineChange ==
    /\ Waiting
    /\ changes < MaxLineChanges
    /\ \E lv \in Levels(ver) \ {line} : line' = lv
    /\ prev_line' = line
    /\ changes' = changes + 1
    /\ dwell_changes' = IF pc = "dwell" THEN dwell_changes + 1 ELSE dwell_changes
    /\ stable' = 0
    /\ UNCHANGED <<ver, pc, i, line0, fired, fired_at, engaged_ms, acquired>>
    /\ UNCHANGED prog_vars

Next ==
    \/ SetupOutputs \/ SetupShunt \/ SetupConnect \/ SetupOutputsV1
    \/ FillRing \/ FillTip \/ SetupEnd
    \/ ReadRing \/ ReadTip \/ Classify \/ Compare
    \/ LedOn \/ PutShuntIn \/ PutShuntInV1 \/ DisconnectV1 \/ Dwell
    \/ ConnectV1 \/ TakeShuntOut \/ TakeShuntOutV1 \/ LedOff
    \/ UpdateState \/ Delay \/ LineChange

Spec == Init /\ [][Next]_vars

TypeOK ==
    /\ ver \in Versions
    /\ pbx_tip.nextslot \in 0..(HistLen(ver) - 1)
    /\ pbx_ring.nextslot \in 0..(HistLen(ver) - 1)
    /\ last_linestate \in line_state_t
    /\ new_linestate \in line_state_t \cup {"undef"}
    /\ pin \in [PinNames -> {"Z", "LOW", "HIGH"}]

\* ------------------------------------------------------------------------
\* Progress of the V2.0 sketch: every statement of the actuation sequence
\* returns, the blocking delay() calls included, and so do the update of
\* the held state and the delay that ends a cycle; the line may or may not
\* change. The sketch is powered up on an idle line or on a line that is
\* already off-hook.
\* ------------------------------------------------------------------------
InitFair ==
    /\ Init
    /\ ver = "V2"
    /\ line \in {OnHookLevel("V2"), OffHookLevel("V2")}

SequenceStep ==
    \/ LedOn \/ PutShuntIn \/ Dwell \/ TakeShuntOut \/ LedOff
    \/ UpdateState \/ Delay

NextFair ==
    \/ SetupOutputs \/ SetupShunt \/ SetupConnect
    \/ FillRing \/ FillTip \/ SetupEnd
    \/ ReadRing \/ ReadTip \/ Classify \/ Compare
    \/ SequenceStep \/ LineChange

FairSpec == InitFair /\ [][NextFair]_vars /\ WF_vars(SequenceStep)

\* ------------------------------------------------------------------------
\* Two actuation sequences in one run of the V2.0 sketch: the same
\* statements as above explored for MaxLockCycles cycles, from a power-up on
\* an idle line or on a line that is already off-hook; the line may change
\* to any level.
\* ------------------------------------------------------------------------
\* delay(SAMPLE_INTERVAL); loop() returns and is called again
DelayLock ==
    /\ pc = "delay"
    /\ Cycles < MaxLockCycles
    /\ Elapse(SAMPLE_INTERVAL)
    /\ pc' = "read_ring"
    /\ UNCHANGED <<ver, i, fired>>
    /\ UNCHANGED prog_vars
    /\ UNCHANGED env_vars

NextLock ==
    \/ SetupOutputs \/ SetupShunt \/ SetupConnect
    \/ FillRing \/ FillTip \/ SetupEnd
    \/ ReadRing \/ ReadTip \/ Classify \/ Compare
    \/ LedOn \/ PutShuntIn \/ Dwell \/ TakeShuntOut \/ LedOff
    \/ UpdateState \/ DelayLock \/ LineChange

SpecLock == InitFair /\ [][NextLock]_vars

\* ------------------------------------------------------------------------
\* The classifier on its own: getlinestate() applied to bounded histories.
\* The sketch is at the getlinestate() call of a V2.0 cycle; the histories
\* hold a base level everywhere except in two slots, every level taken from
\* the edges of the three bands, and the held state is any line state.
\* ------------------------------------------------------------------------
\* deltas 71, 70, 61, 60, 35, 34, 21, 20, -10, -11, -70, -71 (V2.0 codes)
BandEdgeLevels ==
    {[tip |-> 813, ring |-> 212], [tip |-> 813, ring |-> 220],
     [tip |-> 771, ring |-> 254], [tip |-> 771, ring |-> 263],
     [tip |-> 517, ring |-> 220], [tip |-> 517, ring |-> 229],
     [tip |-> 517, ring |-> 339], [tip |-> 517, ring |-> 347],
     [tip |-> 263, ring |-> 347], [tip |-> 254, ring |-> 347],
     [tip |-> 220, ring |-> 813], [tip |-> 212, ring |-> 813]}

\* what read_voltage stores for each conductor at the given level
SampledVolts ==
    [lv \in BandEdgeLevels |->
        [tip |-> Stored("V2", RoundedVolts("V2", lv.tip)),
         ring |-> Stored("V2", RoundedVolts("V2", lv.ring))]]

Slots == 0..(NUM_HISTORY - 1)

\* the level sampled into each slot
SlotLevels ==
    {[k \in Slots |-> IF k = p THEN x ELSE IF k = q THEN y ELSE b] :
        b \in BandEdgeLevels,
        p \in Slots, q \in Slots,
        x \in BandEdgeLevels, y \in BandEdgeLevels}

InitCls ==
    /\ ver = "V2"
    /\ pc = "classify"
    /\ i = NUM_HISTORY
    /\ \E h \in SlotLevels, c \in {1, NUM_HISTORY} :
          /\ pbx_tip = [nextslot |-> c % NUM_HISTORY,
                        history |-> [k \in Slots |-> SampledVolts[h[k]].tip]]
          /\ pbx_ring = [nextslot |-> c % NUM_HISTORY,
                         history |-> [k \in Slots |-> SampledVolts[h[k]].ring]]
          /\ count = 2 * (NUM_HISTORY + c)
          /\ acquired =
                [tip |-> [k \in Slots |->
                            2 * (NUM_HISTORY + c) - 2 * ((c - 1 - k) % NUM_HISTORY)],
                 ring |-> [k \in Slots |->
                            2 * (NUM_HISTORY + c) - 2 * ((c - 1 - k) % NUM_HISTORY) - 1]]
    /\ connected = TRUE
    /\ shunted = FALSE
    /\ pin = [n \in PinNames |->
                IF n = "DISCONNECT_SHUNT" THEN "HIGH"
                ELSE IF n = "DISCONNECT_CO_PBX" THEN "Z" ELSE "LOW"]
    /\ last_linestate \in line_state_t
    /\ new_linestate = "undef"
    /\ line = OnHookLevel("V2")
    /\ line0 = line
    /\ prev_line = line
    /\ changes = 0
    /\ dwell_changes = 0
    /\ stable = 0
    /\ fired = 0
    /\ fired_at = 0
    /\ engaged_ms = 0

\* the rest of the cycle after the two samples are in
NextCls ==
    \/ Classify \/ Compare \/ LedOn \/ PutShuntIn \/ Dwell
    \/ TakeShuntOut \/ LedOff \/ UpdateState

SpecCls == InitCls /\ [][NextCls]_vars

\* ------------------------------------------------------------------------
\* The voltage transform on its own: the sketch from power-up through its
\* first acquisition cycle, on a line that delivers any pair of raw ADC
\* codes: every pair of neighbouring codes, and every code paired with the
\* lowest and with the full-scale code.
\* ------------------------------------------------------------------------
RawCodes == 0..(ADC_FULL_SCALE - 1)

CodePairs ==
    {[ring |-> a, tip |-> a + 1] : a \in 0..(ADC_FULL_SCALE - 2)}
    \cup {[ring |-> 0, tip |-> b] : b \in RawCodes}
    \cup {[ring |-> a, tip |-> ADC_FULL_SCALE - 1] : a \in RawCodes}

InitXf ==
    /\ ver \in Versions
    /\ pc = "setup"
    /\ i = 0
    /\ pbx_tip = pbx_line_t(ver)
    /\ pbx_ring = pbx_line_t(ver)
    /\ count = 0
    /\ connected = FALSE
    /\ shunted = FALSE
    /\ pin = [n \in PinNames |-> "Z"]
    /\ last_linestate = "ON_HOOK"
    /\ new_linestate = "undef"
    /\ line \in CodePairs
    /\ line0 = line
    /\ prev_line = line
    /\ changes = 0
    /\ dwell_changes = 0
    /\ stable = 0
    /\ fired = 0
    /\ fired_at = 0
    /\ engaged_ms = 0
    /\ acquired = [c \in {"tip", "ring"} |-> [k \in 0..(HistLen(ver) - 1) |-> 0]]

\* setup() and the two read_voltage calls of the first loop() cycle
NextXf ==
    \/ SetupOutputs \/ SetupShunt \/ SetupConnect \/ SetupOutputsV1
    \/ FillRing \/ FillTip \/ SetupEnd
    \/ ReadRing \/ ReadTip

SpecXf == InitXf /\ [][NextXf]_vars

\* ------------------------------------------------------------------------
\* The isolate-and-shunt strategy: the whole V1.0 sketch, whose loop() uses
\* it, and do_disconnect() of V2.0, which no statement of V2.0 calls; it is
\* run once from the state setup() of V2.0 leaves.
\* ------------------------------------------------------------------------
\* do_disconnect(): digitalWrite(LED, HIGH)
DdLedOn ==
    /\ pc = "dd_led_on"
    /\ pin' = digitalWrite(pin, "LED", TRUE)
    /\ pc' = "dd_shunt_in"
    /\ UNCHANGED <<ver, i, pbx_tip, pbx_ring, count, connected, shunted,
                   last_linestate, new_linestate, fired, engaged_ms>>
    /\ UNCHANGED env_vars

\* do_disconnect(): do_shunt(true), put CO shunt in
DdShuntIn ==
    /\ pc = "dd_shunt_in"
    /\ do_shunt(TRUE)
    /\ engaged_ms' = 0
    /\ pc' = "dd_disconnect"
    /\ UNCHANGED <<ver, i, pbx_tip, pbx_ring, count, connected,
                   last_linestate, new_linestate, fired>>
    /\ UNCHANGED env_vars

\* do_disconnect(): do_connect(false), disconnect CO and PBX
DdDisconnect ==
    /\ pc = "dd_disconnect"
    /\ do_connect(FALSE)
    /\ pc' = "dd_dwell"
    /\ UNCHANGED <<ver, i, pbx_tip, pbx_ring, count, shunted,
                   last_linestate, new_linestate, fired, engaged_ms>>
    /\ UNCHANGED env_vars

\* do_disconnect(): delay(750)
DdDwell ==
    /\ pc = "dd_dwell"
    /\ Elapse(DWELL_V2)
    /\ pc' = "dd_connect"
    /\ UNCHANGED <<ver, i, fired>>
    /\ UNCHANGED prog_vars
    /\ UNCHANGED env_vars

\* do_disconnect(): do_connect(true), connect CO and PBX
DdConnect ==
    /\ pc = "dd_connect"
    /\ do_connect(TRUE)
    /\ pc' = "dd_shunt_out"
    /\ UNCHANGED <<ver, i, pbx_tip, pbx_ring, count, shunted,
                   last_linestate, new_linestate, fired, engaged_ms>>
    /\ UNCHANGED env_vars

\* do_disconnect(): do_shunt(false), take CO shunt out
DdShuntOut ==
    /\ pc = "dd_shunt_out"
    /\ do_shunt(FALSE)
    /\ pc' = "dd_led_off"
    /\ UNCHANGED <<ver, i, pbx_tip, pbx_ring, count, connected,
                   last_linestate, new_linestate, fired, engaged_ms>>
    /\ UNCHANGED env_vars

\* do_disconnect(): digitalWrite(LED, LOW), and return
DdLedOff ==
    /\ pc = "dd_led_off"
    /\ pin' = digitalWrite(pin, "LED", FALSE)
    /\ pc' = "dd_return"
    /\ UNCHANGED <<ver, i, pbx_tip, pbx_ring, count, connected, shunted,
                   last_linestate, new_linestate, fired, engaged_ms>>
    /\ UNCHANGED env_vars

\* V1.0 at power-up, or V2.0 entering do_disconnect() with setup() done
InitIso ==
    \/ Init /\ ver = "V1"
    \/ /\ ver = "V2"
       /\ pc = "dd_led_on"
       /\ i = NUM_HISTORY
       /\ line \in Levels("V2")
       /\ pbx_tip = [nextslot |-> 0,
                     history |-> [k \in Slots |->
                                    Stored("V2", RoundedVolts("V2", line.tip))]]
       /\ pbx_ring = [nextslot |-> 0,
                      history |-> [k \in Slots |->
                                     Stored("V2", RoundedVolts("V2", line.ring))]]
       /\ count = 2 * NUM_HISTORY
       /\ acquired = [tip |-> [k \in Slots |-> 2 * k + 2],
                      ring |-> [k \in Slots |-> 2 * k + 1]]
       /\ connected = TRUE
       /\ shunted = FALSE
       /\ pin = [n \in PinNames |->
                   IF n = "DISCONNECT_SHUNT" THEN "HIGH"
                   ELSE IF n = "DISCONNECT_CO_PBX" THEN "Z" ELSE "LOW"]
       /\ last_linestate = "ON_HOOK"
       /\ new_linestate = "undef"
       /\ line0 = line
       /\ prev_line = line
       /\ changes = 0
       /\ dwell_changes = 0
       /\ stable = 0
       /\ fired = 0
       /\ fired_at = 0
       /\ engaged_ms = 0

NextIso ==
    \/ SetupOutputsV1 \/ FillRing \/ FillTip \/ SetupEnd
    \/ ReadRing \/ ReadTip \/ Classify \/ Compare
    \/ LedOn \/ PutShuntInV1 \/ DisconnectV1 \/ Dwell
    \/ ConnectV1 \/ TakeShuntOutV1 \/ LedOff
    \/ UpdateState \/ Delay \/ LineChange
    \/ DdLedOn \/ DdShuntIn \/ DdDisconnect \/ DdDwell
    \/ DdConnect \/ DdShuntOut \/ DdLedOff

SpecIso == InitIso /\ [][NextIso]_vars

\* ------------------------------------------------------------------------
\* Vocabulary of the properties
\* ------------------------------------------------------------------------
\* the statements of the actuation sequence
SequencePcs == {"led_on", "shunt_in", "disconnect", "dwell", "connect",
                "shunt_out", "led_off"}

\* the slots of the NUM_SAMPLES most recent samples of V2.0
WindowSlots ==
    {(pbx_ring.nextslot - k + NUM_HISTORY) % NUM_HISTORY : k \in 1..NUM_SAMPLES}

\* the voltage across the pair at the sample held in slot s
Delta(s) == pbx_tip.history[s] - pbx_ring.history[s]

AllInOnHookBand == \A s \in WindowSlots : Delta(s) >= 35 /\ Delta(s) <= 60
AllInOffHookBand == \A s \in WindowSlots : Delta(s) >= -10 /\ Delta(s) <= 20
RingingDeltas == Cardinality({s \in WindowSlots : Delta(s) > 70 \/ Delta(s) < -70})
AmbiguousWindow == ~AllInOnHookBand /\ ~AllInOffHookBand /\ RingingDeltas < 2

\* getlinestate() of V2.0 has returned in this cycle and no sample has been
\* acquired since
Decided == ver = "V2" /\ new_linestate # "undef"

LedHigh == pin["LED"] = "HIGH"

\* the configured dwell of the flashed version, in msec
ConfiguredDwell == IF ver = "V2" THEN 750 ELSE 600

\* C1: the actuation sequence is entered from the comparison of a cycle if
\* and only if the held state is ON_HOOK and the decision of that cycle is
\* OFF_HOOK; every statement of the sequence runs under that pair only, and
\* the conditioning element is across the line only inside the sequence.
C1_ActuationIffOnHookToOffHook ==
    [][ /\ (pc = "compare" =>
              ((pc' = "led_on") <=>
               (last_linestate = "ON_HOOK" /\ new_linestate = "OFF_HOOK")))
        /\ (pc' = "led_on" => pc = "compare")
        /\ (pc' \in SequencePcs =>
              last_linestate = "ON_HOOK" /\ new_linestate = "OFF_HOOK")
        /\ (ShuntIn' => pc' \in SequencePcs)
        /\ (fired' # fired => pc' = "led_on") ]_vars

C1_Witness ==
    /\ pc = "dwell" /\ ShuntIn
    /\ last_linestate = "ON_HOOK" /\ new_linestate = "OFF_HOOK"
    /\ changes = 1

\* C6: the steps of a sequence come in the order LED on, element engaged,
\* dwell, element disengaged, LED off (V1.0 writes its CO-PBX relay right
\* after engaging and right before disengaging the shunt, without waiting);
\* the element stays engaged for exactly the configured dwell (750 msec in
\* V2.0, 600 msec in V1.0), no time passes between the end of the dwell and
\* the disengagement, and the LED is high whenever the element is engaged.
C6_SequenceOrderAndDwell ==
    [][ /\ (pc = "led_on" => pc' = "shunt_in" /\ LedHigh' /\ ~ShuntIn')
        /\ (pc = "shunt_in" =>
              /\ ~ShuntIn /\ ShuntIn' /\ engaged_ms' = 0
              /\ pc' = IF ver = "V2" THEN "dwell" ELSE "disconnect")
        /\ (pc = "disconnect" => pc' = "dwell" /\ ShuntIn' /\ engaged_ms' = 0)
        /\ (pc = "dwell" /\ pc' # "dwell" =>
              /\ ShuntIn /\ ShuntIn'
              /\ engaged_ms = 0 /\ engaged_ms' = ConfiguredDwell
              /\ pc' = IF ver = "V2" THEN "shunt_out" ELSE "connect")
        /\ (pc = "connect" =>
              pc' = "shunt_out" /\ ShuntIn' /\ engaged_ms' = engaged_ms)
        /\ (pc = "shunt_out" =>
              /\ ShuntIn /\ ~ShuntIn' /\ engaged_ms = ConfiguredDwell
              /\ pc' = "led_off" /\ LedHigh')
        /\ (pc = "led_off" => pc' = "update" /\ ~LedHigh')
        /\ (~ShuntIn /\ ShuntIn' => pc = "shunt_in")
        /\ (ShuntIn /\ ~ShuntIn' => engaged_ms = ConfiguredDwell)
        /\ (ShuntIn => LedHigh)
        /\ (ShuntIn' => LedHigh') ]_vars

C6_Witness ==
    /\ pc = "led_off" /\ LedHigh /\ ~ShuntIn
    /\ engaged_ms = ConfiguredDwell /\ fired = 1

\* C7: while the conditioning element is engaged, and in the steps that
\* engage and disengage it, no sample is acquired, no classification is
\* made, the held state does not change and no further sequence starts:
\* histories, cursors, sample count, decision and held state are the same
\* at the end of the dwell as at its start.
C7_NothingSampledWhileEngaged ==
    [][ /\ ((ShuntIn \/ ShuntIn') =>
              UNCHANGED <<pbx_tip, pbx_ring, count, last_linestate,
                          new_linestate, fired>>)
        /\ (ShuntIn' =>
              pc' \in {"disconnect", "dwell", "connect", "shunt_out"}) ]_vars

C7_Witness ==
    /\ pc = "shunt_out" /\ ShuntIn /\ ver = "V2"
    /\ dwell_changes >= 1
    /\ engaged_ms = 750

\* the scenario of C8: on-hook at power-up, then one change to off-hook
C8_OffHookFed ==
    /\ ver = "V2"
    /\ line0 = OnHookLevel("V2")
    /\ changes = 1
    /\ line = OffHookLevel("V2")

\* C8: with the line on-hook (delta 45) from power-up the decision is
\* ON_HOOK; once the line turns off-hook (delta 5) the held state stays
\* ON_HOOK until NUM_SAMPLES = 10 off-hook samples are in, the cycle of the
\* 10th sample decides OFF_HOOK and fires exactly one sequence with the
\* 750 msec dwell, and further off-hook samples fire no other sequence.
C8_OneSequenceOnTheEdge ==
    /\ (ver = "V2" /\ line0 = OnHookLevel("V2") /\ changes = 0) =>
          /\ last_linestate = "ON_HOOK"
          /\ new_linestate \in {"undef", "ON_HOOK"}
          /\ fired = 0
    /\ (C8_OffHookFed /\ stable < NUM_SAMPLES) =>
          /\ last_linestate = "ON_HOOK"
          /\ new_linestate \in {"undef", "ON_HOOK"}
          /\ fired = 0
    /\ (C8_OffHookFed /\ stable = NUM_SAMPLES) =>
          /\ (pc = "classify" => last_linestate = "ON_HOOK" /\ fired = 0)
          /\ (pc = "compare" =>
                /\ last_linestate = "ON_HOOK" /\ new_linestate = "OFF_HOOK"
                /\ fired = 0)
          /\ (pc \in SequencePcs \cup {"update"} =>
                /\ last_linestate = "ON_HOOK" /\ new_linestate = "OFF_HOOK"
                /\ fired = 1)
          /\ (pc \in {"delay", "read_ring", "read_tip"} =>
                /\ last_linestate = "OFF_HOOK" /\ fired = 1
                /\ engaged_ms = 750 /\ ~ShuntIn)
    /\ (C8_OffHookFed /\ stable > NUM_SAMPLES) =>
          /\ last_linestate = "OFF_HOOK"
          /\ new_linestate \in {"undef", "OFF_HOOK"}
          /\ fired = 1
          /\ pc \notin SequencePcs
          /\ ~ShuntIn

C8_Witness ==
    /\ C8_OffHookFed /\ stable = NUM_SAMPLES + 2 /\ pc = "delay"
    /\ fired = 1 /\ last_linestate = "OFF_HOOK"

\* the two most recent deltas of V2.0 are +80 and -80, in either order
AlternatingRing ==
    LET s1 == (pbx_ring.nextslot - 1 + NUM_HISTORY) % NUM_HISTORY
        s2 == (pbx_ring.nextslot - 2 + NUM_HISTORY) % NUM_HISTORY
    IN  {Delta(s1), Delta(s2)} = {80, -80}

\* C9: when the two most recent deltas are +80 V and -80 V the decision is
\* RINGING; a cycle whose decision or whose held state is RINGING never
\* enters the actuation sequence, so neither ON_HOOK -> RINGING nor
\* RINGING -> OFF_HOOK engages the conditioning element.
C9_RingingNeverActuates ==
    [][ /\ (ver = "V2" /\ pc = "classify" /\ AlternatingRing =>
              new_linestate' = "RINGING")
        /\ (pc = "compare" /\
            (last_linestate = "RINGING" \/ new_linestate = "RINGING") =>
              pc' \in {"update", "delay"} /\ fired' = fired /\ ~ShuntIn')
        /\ (pc' \in SequencePcs \/ ShuntIn' =>
              last_linestate # "RINGING" /\ new_linestate # "RINGING") ]_vars

C9_Witness ==
    /\ ver = "V2" /\ pc = "update" /\ AlternatingRing
    /\ last_linestate = "ON_HOOK" /\ new_linestate = "RINGING"
    /\ fired = 0 /\ ~ShuntIn

\* every change of the line so far fell into a dwell, and the last two
\* took it to on-hook and back to off-hook
C10_FlippedDuringDwell ==
    /\ fired >= 1
    /\ dwell_changes >= 2
    /\ changes = dwell_changes
    /\ prev_line = OnHookLevel(ver)
    /\ line = OffHookLevel(ver)

\* C10 as stated: a flip to on-hook and back to off-hook during the
\* blocking dwell is a fresh edge, so that by the time the off-hook level
\* fills a whole window again the sequence has been repeated.
C10_DwellFlipRepeatsSequence ==
    (C10_FlippedDuringDwell /\ pc = "delay" /\ stable >= NUM_SAMPLES) =>
        fired >= 2

\* C10 amended: there is no repeat-suppression logic, but changes of the
\* line during the blocking dwell are never sampled, so as long as every
\* change fell into a dwell at most one sequence fires; a sequence starts
\* only from a cycle that holds ON_HOOK and decides OFF_HOOK.
C10_DwellFlipIsNotAnEdge ==
    [][ /\ (changes' = dwell_changes' => fired' <= 1)
        /\ (fired' # fired =>
              /\ pc = "compare"
              /\ last_linestate = "ON_HOOK" /\ new_linestate = "OFF_HOOK") ]_vars

C10_Witness ==
    /\ C10_FlippedDuringDwell /\ pc = "delay" /\ stable >= NUM_SAMPLES
    /\ fired = 1 /\ last_linestate = "OFF_HOOK"

\* C2: whenever each of the NUM_SAMPLES most recent time-aligned deltas lies
\* in [35,60], getlinestate() returns ON_HOOK, whatever the held state and
\* whatever the rest of the history holds.
C2_AllOnHookBandGivesOnHook ==
    (Decided /\ AllInOnHookBand) => new_linestate = "ON_HOOK"

C2_Witness ==
    /\ Decided /\ pc = "compare" /\ AllInOnHookBand
    /\ last_linestate = "RINGING"
    /\ \E s \in WindowSlots : Delta(s) = 60
    /\ \E s \in Slots \ WindowSlots : Delta(s) > 70

\* C3: whenever each of the NUM_SAMPLES most recent time-aligned deltas lies
\* in [-10,20], getlinestate() returns OFF_HOOK, whatever the held state.
C3_AllOffHookBandGivesOffHook ==
    (Decided /\ AllInOffHookBand) => new_linestate = "OFF_HOOK"

C3_Witness ==
    /\ Decided /\ pc = "compare" /\ AllInOffHookBand
    /\ last_linestate = "RINGING"
    /\ \E s \in WindowSlots : Delta(s) = -10
    /\ \E s \in WindowSlots : Delta(s) = 20

\* C4: a window with at least 2 deltas of magnitude above 70 (either sign)
\* that is neither entirely in [35,60] nor entirely in [-10,20] makes
\* getlinestate() return RINGING, whatever the held state.
C4_TwoRingingDeltasGiveRinging ==
    (Decided /\ RingingDeltas >= 2 /\ ~AllInOnHookBand /\ ~AllInOffHookBand)
        => new_linestate = "RINGING"

C4_Witness ==
    /\ Decided /\ pc = "compare" /\ RingingDeltas = 2
    /\ last_linestate = "OFF_HOOK"
    /\ \A s \in WindowSlots : Delta(s) <= 70

\* C5: a window that is not entirely in [35,60], not entirely in [-10,20]
\* and has fewer than 2 deltas of magnitude above 70 makes getlinestate()
\* return the held state; the cycle then goes straight to its delay, so the
\* held state is not changed and the conditioning element is not engaged.
C5_AmbiguousWindowKeepsState ==
    (Decided /\ AmbiguousWindow) =>
        /\ new_linestate = last_linestate
        /\ pc \in {"compare", "delay"}
        /\ fired = 0
        /\ ~ShuntIn

C5_Witness ==
    /\ Decided /\ AmbiguousWindow /\ pc = "delay"
    /\ last_linestate = "OFF_HOOK"
    /\ RingingDeltas = 1

\* delta d lies in the band of line state S (for RINGING: magnitude above 70)
InBand(S, d) ==
    IF S = "ON_HOOK" THEN d >= 35 /\ d <= 60
    ELSE IF S = "OFF_HOOK" THEN d >= -10 /\ d <= 20
    ELSE d > 70 \/ d < -70

\* the window slots whose delta is outside the band of the held state
Outliers == {s \in WindowSlots : ~InBand(last_linestate, Delta(s))}

\* C11: getlinestate() returns a state different from the held one only if
\* all NUM_SAMPLES deltas of the window lie in the band of the returned state
\* (ON_HOOK, OFF_HOOK) or at least two deltas have magnitude above 70
\* (RINGING); a window with at most one delta outside the band of the held
\* state returns the held state.
C11_SingleOutlierCannotFlip ==
    (Decided /\ pc = "compare") =>
        /\ (new_linestate # last_linestate =>
              \/ new_linestate = "ON_HOOK" /\ AllInOnHookBand
              \/ new_linestate = "OFF_HOOK" /\ AllInOffHookBand
              \/ new_linestate = "RINGING" /\ RingingDeltas >= 2)
        /\ (Cardinality(Outliers) <= 1 => new_linestate = last_linestate)

C11_Witness ==
    /\ Decided /\ pc = "compare"
    /\ last_linestate = "ON_HOOK" /\ new_linestate = "ON_HOOK"
    /\ Cardinality(Outliers) = 1
    /\ RingingDeltas = 1


\* the statements of setup() up to the end of the initial fill
WarmUpPcs == {"setup", "setup_shunt", "setup_connect", "fill_ring", "fill_tip"}

\* slot reached from the cursor of p after k steps forward, with wrap
Forward(p, k) == (p.nextslot + k) % HistLen(ver)

\* C12: when setup() ends and whenever a loop() cycle, any number of cycles
\* later, has its two samples in, every slot of both histories holds an
\* acquired sample, the cursors agree, walking forward from the cursor
\* (with wrap) visits the samples oldest to newest, these are the samples
\* of the HistLen most recent acquisitions, and the tip sample of every slot
\* was acquired right after the ring sample of the same slot; a cycle
\* acquires two samples, and until the next cycle samples again the newest
\* slot holds the last acquisition.
C12_HistoryFullOrderedAligned ==
    /\ pc \notin WarmUpPcs =>
          /\ i = HistLen(ver)
          /\ count = 2 * (HistLen(ver) + Cycles) +
                        (IF pc = "read_tip" THEN 1 ELSE 0)
          /\ pc # "read_tip" =>
                /\ pbx_tip.nextslot = pbx_ring.nextslot
                /\ acquired.tip[Forward(pbx_tip, HistLen(ver) - 1)] = count
                /\ acquired.ring[Forward(pbx_ring, HistLen(ver) - 1)] = count - 1
    /\ pc \in {"setup_end", "classify"} =>
          /\ \A s \in 0..(HistLen(ver) - 1) :
                /\ acquired.ring[s] > 0
                /\ acquired.tip[s] = acquired.ring[s] + 1
          /\ \A k \in 0..(HistLen(ver) - 2) :
                /\ acquired.ring[Forward(pbx_ring, k)] <
                       acquired.ring[Forward(pbx_ring, k + 1)]
                /\ acquired.tip[Forward(pbx_tip, k)] <
                       acquired.tip[Forward(pbx_tip, k + 1)]
          /\ \A k \in 0..(HistLen(ver) - 1) :
                acquired.tip[Forward(pbx_tip, k)] =
                    count - 2 * (HistLen(ver) - 1 - k)

C12_Witness ==
    /\ pc = "classify"
    /\ Cycles = HistLen(ver) + 2
    /\ pbx_ring.nextslot = 2
    /\ acquired.ring[1] = count - 1 /\ acquired.tip[1] = count
    /\ acquired.tip[2] = count - 2 * (HistLen(ver) - 1)


\* the slots a classification reads: the window of getlinestate() in V2.0,
\* the whole array in newlinestate() of V1.0
ClassifiedSlots == IF ver = "V2" THEN WindowSlots ELSE 0..(MAXSAMPLES - 1)

\* C13: during warm-up no classification is made and nothing is actuated;
\* when setup() ends it has acquired HistLen samples per conductor and every
\* slot is filled; every classification, the first one included, comes
\* after the warm-up and reads only slots that hold an acquired sample.
C13_WarmUpBeforeFirstDecision ==
    /\ pc \in WarmUpPcs \cup {"setup_end"} =>
          /\ new_linestate = "undef"
          /\ last_linestate = "ON_HOOK"
          /\ fired = 0 /\ ~ShuntIn /\ ~LedHigh /\ shunted = FALSE
    /\ pc = "setup_end" =>
          /\ count = 2 * HistLen(ver)
          /\ i = HistLen(ver)
          /\ \A s \in 0..(HistLen(ver) - 1) :
                acquired.ring[s] > 0 /\ acquired.tip[s] > 0
    /\ pc = "classify" \/ new_linestate # "undef" =>
          /\ count >= 2 * HistLen(ver) + 2
          /\ \A s \in ClassifiedSlots :
                acquired.ring[s] > 0 /\ acquired.tip[s] > 0

C13_Witness ==
    /\ ver = "V2" /\ pc = "compare" /\ Cycles = 1
    /\ new_linestate = "OFF_HOOK"
    /\ \E s \in WindowSlots : acquired.tip[s] = 2 * NUM_HISTORY
    /\ acquired.tip[0] = count


\* V is the exact voltage x = int + num/den rounded to the nearest integer,
\* a tie going away from zero
RoundedHalfAwayFromZero(x, V) ==
    \/ V = x.int /\ (2 * x.num < x.den \/ (2 * x.num = x.den /\ x.int < 0))
    \/ V = x.int + 1 /\ (2 * x.num > x.den \/ (2 * x.num = x.den /\ x.int >= 0))

\* C14: the volts read_voltage() returns do not decrease when the raw code
\* grows; every code gives a value between the one of raw code 0 (the
\* minimum) and the one of the full-scale code 1023 (the maximum), the two
\* being different; the value is the transform's voltage rounded to the
\* nearest integer, half away from zero, and it is what the history stores.
C14_TransformMonotoneAndRounded ==
    LET a == line.ring
        b == line.tip
        lo == RoundedVolts(ver, 0)
        hi == RoundedVolts(ver, ADC_FULL_SCALE - 1)
    IN  /\ a <= b => RoundedVolts(ver, a) <= RoundedVolts(ver, b)
        /\ lo < hi
        /\ lo <= RoundedVolts(ver, a) /\ RoundedVolts(ver, a) <= hi
        /\ lo <= RoundedVolts(ver, b) /\ RoundedVolts(ver, b) <= hi
        /\ RoundedHalfAwayFromZero(Vin(ver, a), RoundedVolts(ver, a))
        /\ RoundedHalfAwayFromZero(Vin(ver, b), RoundedVolts(ver, b))
        /\ \A s \in 0..(HistLen(ver) - 1) :
              /\ acquired.ring[s] > 0 =>
                    pbx_ring.history[s] = RoundedVolts(ver, a)
              /\ acquired.tip[s] > 0 =>
                    pbx_tip.history[s] = RoundedVolts(ver, b)
              /\ acquired.tip[s] > 0 /\ a <= b =>
                    pbx_ring.history[s] <= pbx_tip.history[s]

C14_Witness ==
    /\ ver = "V2" /\ pc = "classify"
    /\ line.ring = 0 /\ line.tip = ADC_FULL_SCALE - 1
    /\ pbx_ring.history[0] = -61 /\ pbx_tip.history[0] = 60
    /\ acquired.tip[0] = count


\* the relay between CO and PBX is driven open
Disconnected ==
    \/ pin["DISCONNECT_CO_PBX"] = "HIGH"
    \/ pin["DISCONNECT_CO_PBX_TIP"] = "HIGH"
    \/ pin["DISCONNECT_CO_PBX_RING"] = "HIGH"

\* the statements of the isolate-and-shunt sequence, in V1.0 loop() and in
\* do_disconnect() of V2.0
IsolatePcs == SequencePcs \cup {"dd_led_on", "dd_shunt_in", "dd_disconnect",
                  "dd_dwell", "dd_connect", "dd_shunt_out", "dd_led_off"}

\* C15: in the isolate-and-shunt sequence the shunt is in before the CO-PBX
\* connection is broken, both hold through the wait, and after the wait the
\* connection is restored before the shunt is taken out; whenever CO and PBX
\* are disconnected the shunt is across the line; the sequence ends, and
\* every state outside it is, with CO-PBX connected and the shunt out; the
\* V1.0 sequence runs on the off-hook edge only.
C15_ShuntCoversDisconnection ==
    /\ Disconnected => ShuntIn
    /\ pc \in {"disconnect", "dd_disconnect"} => ShuntIn /\ ~Disconnected
    /\ pc \in {"dwell", "dd_dwell"} =>
          ShuntIn /\ Disconnected /\ engaged_ms = 0
    /\ pc \in {"connect", "dd_connect"} =>
          ShuntIn /\ Disconnected /\ engaged_ms = ConfiguredDwell
    /\ pc \in {"shunt_out", "dd_shunt_out"} =>
          ShuntIn /\ ~Disconnected /\ engaged_ms = ConfiguredDwell
    /\ pc \in {"led_off", "dd_led_off", "dd_return"} =>
          ~ShuntIn /\ ~Disconnected
    /\ pc \notin IsolatePcs => ~ShuntIn /\ ~Disconnected
    /\ pc \in SequencePcs =>
          last_linestate = "ON_HOOK" /\ new_linestate = "OFF_HOOK"
    /\ ver = "V2" =>
          /\ connected = ~Disconnected
          /\ shunted = ShuntIn

C15_Witness ==
    /\ ver = "V1" /\ pc = "shunt_out"
    /\ ShuntIn /\ ~Disconnected
    /\ pin["DISCONNECT_CO_PBX"] = "LOW"
    /\ engaged_ms = 600 /\ dwell_changes = 1


\* C16: in V2.0, from the do_connect(true) of setup() on, CO and PBX stay
\* connected: in every later state, the states of an actuation sequence
\* included, `connected` is true and both DISCONNECT_CO_PBX pins are low,
\* as that call left them.
C16_AlwaysConnectedV2 ==
    (ver = "V2" /\ pc \notin {"setup", "setup_shunt", "setup_connect"}) =>
        /\ connected = TRUE
        /\ pin["DISCONNECT_CO_PBX_TIP"] = "LOW"
        /\ pin["DISCONNECT_CO_PBX_RING"] = "LOW"

C16_Witness ==
    /\ ver = "V2" /\ pc = "shunt_out"
    /\ ShuntIn /\ shunted = TRUE /\ engaged_ms = 750
    /\ connected = TRUE
    /\ pin["DISCONNECT_CO_PBX_TIP"] = "LOW"
    /\ pin["DISCONNECT_CO_PBX_RING"] = "LOW"


\* C17: setup() leaves the held state ON_HOOK for the first loop() cycle;
\* read_voltage() and getlinestate() (newlinestate() in V1.0) never modify
\* it, the only statement that changes it is the update of loop(), which
\* stores the decision of the cycle; at the end of every cycle, with or
\* without a change, it equals the decision of that cycle; a cycle that ran
\* the actuation sequence decided OFF_HOOK, so the held state is OFF_HOOK
\* when the sequence is over and sampling resumes.
C17_HeldStateFollowsDecision ==
    [][ /\ (pc = "setup_end" =>
              pc' = "read_ring" /\ last_linestate' = "ON_HOOK")
        /\ (pc \in {"fill_ring", "fill_tip", "read_ring", "read_tip",
                    "classify"} =>
              last_linestate' = last_linestate)
        /\ (last_linestate' # last_linestate =>
              pc = "update" /\ last_linestate' = new_linestate)
        /\ (pc' = "delay" => last_linestate' = new_linestate')
        /\ (pc = "led_off" =>
              pc' = "update" /\ new_linestate' = "OFF_HOOK")
        /\ (pc = "update" =>
              /\ pc' = "delay"
              /\ last_linestate' = new_linestate
              /\ new_linestate' = new_linestate)
        /\ (pc = "delay" /\ pc' = "read_ring" =>
              last_linestate' = new_linestate) ]_vars

C17_Witness ==
    /\ pc = "read_ring" /\ fired = 1 /\ ~ShuntIn
    /\ engaged_ms = ConfiguredDwell
    /\ last_linestate = "OFF_HOOK" /\ new_linestate = "OFF_HOOK"
    /\ stable = NUM_SAMPLES


\* the elements of a sequence
Range(seq) == {seq[k] : k \in 1..Len(seq)}

\* C18: at every getlinestate() call of V2.0, whatever the cursor, the loop
\* reads NUM_SAMPLES slots, the k-th of them (k from 0) being slot
\* (nextslot - 1 - k) mod NUM_HISTORY, also when the cursor is below
\* NUM_SAMPLES; read with one index for both conductors, they hold the
\* ring/tip pairs acquired in the NUM_SAMPLES most recent cycles; and they
\* are the slots show_samples() prints for either conductor, oldest first.
C18_WindowIsMostRecentSamples ==
    (ver = "V2" /\ pc = "classify") =>
        LET c == pbx_ring.nextslot
            walk == SlotsRead(0, c)
            shown == show_samples(pbx_ring)
        IN  /\ Len(walk) = NUM_SAMPLES
            /\ \A k \in 0..(NUM_SAMPLES - 1) :
                  /\ walk[k + 1] = (c - 1 - k + NUM_HISTORY) % NUM_HISTORY
                  /\ acquired.ring[walk[k + 1]] = count - 2 * k - 1
                  /\ acquired.tip[walk[k + 1]] = count - 2 * k
            /\ Range(walk) = WindowSlots
            /\ Cardinality(Range(walk)) = NUM_SAMPLES
            /\ Len(shown) = NUM_SAMPLES
            /\ \A k \in 1..NUM_SAMPLES : shown[k] = walk[NUM_SAMPLES + 1 - k]
            /\ show_samples(pbx_tip) = shown

C18_Witness ==
    /\ ver = "V2" /\ pc = "classify"
    /\ pbx_ring.nextslot = 3
    /\ Cycles = 3
    /\ SlotsRead(0, 3)[3] = 0
    /\ SlotsRead(0, 3)[4] = NUM_HISTORY - 1
    /\ show_samples(pbx_tip)[NUM_SAMPLES] = 2


\* C19: in every reachable state both cursors are within 0..HistLen-1, the
\* bounds of the arrays they index; both are 0 when setup() ends; at every
\* classification the two cursors are equal; and every slot that
\* getlinestate(), show_samples() and show_history() of V2.0 index from the
\* cursor of a classification is within the array.
C19_CursorsInBoundsAndEqual ==
    /\ pbx_tip.nextslot \in 0..(HistLen(ver) - 1)
    /\ pbx_ring.nextslot \in 0..(HistLen(ver) - 1)
    /\ DOMAIN pbx_tip.history = 0..(HistLen(ver) - 1)
    /\ DOMAIN pbx_ring.history = 0..(HistLen(ver) - 1)
    /\ pc = "setup_end" => pbx_tip.nextslot = 0 /\ pbx_ring.nextslot = 0
    /\ pc \in {"classify", "compare"} => pbx_tip.nextslot = pbx_ring.nextslot
    /\ (ver = "V2" /\ pc = "classify") =>
          /\ Range(SlotsRead(0, pbx_ring.nextslot)) \subseteq Slots
          /\ Range(show_samples(pbx_ring)) \subseteq Slots
          /\ Range(show_history(pbx_ring)) = Slots
          /\ show_samples(pbx_tip) = show_samples(pbx_ring)

C19_Witness ==
    /\ pc = "classify"
    /\ Cycles = HistLen(ver)
    /\ pbx_tip.nextslot = 0 /\ pbx_ring.nextslot = 0
    /\ acquired.tip[HistLen(ver) - 1] = count


\* C20: every actuation sequence terminates: whenever the conditioning
\* element is engaged it is later disengaged, and from every statement of a
\* sequence the sketch reaches the first statement of its next sampling
\* cycle (or the end of the last of the MaxCycles cycles that are run); at
\* every read_voltage() call of loop() the element is disengaged, `shunted`
\* is false and the LED is low.
C20_SequenceTerminates ==
    /\ [](pc \in {"read_ring", "read_tip"} =>
            ~ShuntIn /\ shunted = FALSE /\ pin["LED"] = "LOW")
    /\ (ShuntIn ~> ~ShuntIn)
    /\ (pc \in SequencePcs ~>
            (pc = "read_ring" \/ (pc = "delay" /\ Cycles >= MaxCycles)))

C20_Witness ==
    /\ pc = "read_tip" /\ fired = 1
    /\ engaged_ms = ConfiguredDwell
    /\ ~ShuntIn /\ shunted = FALSE /\ pin["LED"] = "LOW"
    /\ Cycles < MaxCycles



\* ------------------------------------------------------------------------
\* The lockout after an actuation sequence (V2.0)
\* ------------------------------------------------------------------------
\* the slot of the k-th most recent sample (k = 1: the newest)
Recent(k) == (pbx_ring.nextslot - k + NUM_HISTORY) % NUM_HISTORY

\* samples per conductor acquired since the last actuation sequence started
CyclesSinceFired == (count - fired_at) \div 2

\* C21: the first classification after an actuation sequence yields OFF_HOOK:
\* its window holds one sample acquired after the dwell and NUM_SAMPLES - 1
\* off-hook samples acquired before it; and an actuation sequence starts
\* only when at least 2 * NUM_SAMPLES sampling cycles have been executed
\* since the start of the previous one: for the first NUM_SAMPLES - 1 of
\* them the window still holds a pre-dwell off-hook sample, so ON_HOOK is
\* not decided, and the held state is ON_HOOK only NUM_SAMPLES cycles or more
\* after the sequence, from where OFF_HOOK needs NUM_SAMPLES more samples.
C21_InherentLockout ==
    (ver = "V2" /\ fired >= 1 /\ pc \notin SequencePcs) =>
        /\ (CyclesSinceFired = 1 /\ pc \in {"classify", "compare"} =>
              /\ \A k \in 2..NUM_SAMPLES :
                    /\ acquired.ring[Recent(k)] <= fired_at
                    /\ acquired.tip[Recent(k)] <= fired_at
                    /\ InBand("OFF_HOOK", Delta(Recent(k)))
              /\ acquired.ring[Recent(1)] > fired_at
              /\ acquired.tip[Recent(1)] > fired_at
              /\ getlinestate(pbx_tip, pbx_ring, last_linestate) = "OFF_HOOK")
        /\ (CyclesSinceFired = 1 /\ new_linestate # "undef" =>
              new_linestate = "OFF_HOOK")
        /\ (CyclesSinceFired \in 1..(NUM_SAMPLES - 1) /\ new_linestate # "undef" =>
              new_linestate # "ON_HOOK")
        /\ (CyclesSinceFired \in 1..(NUM_SAMPLES - 1) /\ pc # "update" =>
              last_linestate # "ON_HOOK")
        /\ (CyclesSinceFired < 2 * NUM_SAMPLES /\ pc = "compare" =>
              ~(/\ Changed(last_linestate, new_linestate)
                /\ Trigger(last_linestate, new_linestate)))

\* a second actuation sequence starts exactly 2 * NUM_SAMPLES cycles after
\* the first, which started in the first cycle
C21_Witness ==
    /\ ver = "V2" /\ fired = 2 /\ pc = "led_on"
    /\ Cycles = 1 + 2 * NUM_SAMPLES


\* ------------------------------------------------------------------------
\* Power-up on a line that is already off-hook (V2.0)
\* ------------------------------------------------------------------------
\* the two samples of the first loop() cycle are in and no later one
FirstCycle == ver = "V2" /\ count = 2 * NUM_HISTORY + 2

\* C22: setup() leaves the held state at ON_HOOK whatever the warm-up
\* samples are; so when the window of the first loop() cycle (the
\* NUM_SAMPLES - 1 most recent warm-up samples and the first loop sample)
\* has all its deltas in [-10,20], that cycle decides OFF_HOOK against a held
\* ON_HOOK and starts the actuation sequence.
C22_OffHookAtPowerUpFires ==
    /\ (ver = "V2" /\ pc = "read_ring" /\ count = 2 * NUM_HISTORY =>
          last_linestate = "ON_HOOK")
    /\ (FirstCycle /\ AllInOffHookBand =>
          /\ \A k \in 2..NUM_SAMPLES :
                acquired.tip[Recent(k)] <= 2 * NUM_HISTORY
          /\ acquired.tip[Recent(1)] = 2 * NUM_HISTORY + 2
          /\ (pc = "classify" =>
                /\ last_linestate = "ON_HOOK"
                /\ getlinestate(pbx_tip, pbx_ring, last_linestate) = "OFF_HOOK")
          /\ (pc = "compare" =>
                /\ new_linestate = "OFF_HOOK"
                /\ Changed(last_linestate, new_linestate)
                /\ Trigger(last_linestate, new_linestate))
          /\ (pc \notin {"classify", "compare"} =>
                /\ fired = 1
                /\ fired_at = 2 * NUM_HISTORY + 2
                /\ pc \in SequencePcs \cup {"update", "delay", "read_ring"}))

\* the shunt capacitor is engaged in the first cycle after a power-up on an
\* off-hook line
C22_Witness ==
    /\ FirstCycle /\ AllInOffHookBand /\ line0 = OffHookLevel("V2")
    /\ pc = "dwell" /\ ShuntIn /\ fired = 1


\* ------------------------------------------------------------------------
\* Widths of the stored samples and of their difference (V2.0)
\* ------------------------------------------------------------------------
\* x is a value of int8_t
FitsInt8(x) == x >= -128 /\ x <= 127

\* x is a value of int, taken at its narrowest (16 bits)
FitsInt(x) == x >= -32768 /\ x <= 32767

\* C23: with the V2.0 calibration every raw code (the codes of the line and
\* the two ends of the code range) gives rounded volts within -128..127;
\* converting them to int8_t changes nothing, so every acquired slot of the
\* histories holds the value read_voltage() returned; and the difference of
\* any two stored values, in either order, the one getlinestate() computes
\* included, is the integer difference and is far inside the range of int.
C23_NoNarrowingNoOverflow ==
    ver = "V2" =>
        LET va == RoundedVolts("V2", line.ring)
            vb == RoundedVolts("V2", line.tip)
            lo == RoundedVolts("V2", 0)
            hi == RoundedVolts("V2", ADC_FULL_SCALE - 1)
        IN  /\ FitsInt8(lo) /\ FitsInt8(hi)
            /\ FitsInt8(va) /\ FitsInt8(vb)
            /\ ToInt8(va) = va /\ ToInt8(vb) = vb
            /\ Stored("V2", va) = va /\ Stored("V2", vb) = vb
            /\ FitsInt(vb - va) /\ FitsInt(va - vb)
            /\ FitsInt(hi - lo) /\ FitsInt(lo - hi)
            /\ \A s \in Slots :
                  /\ acquired.ring[s] > 0 => pbx_ring.history[s] = va
                  /\ acquired.tip[s] > 0 =>
                        /\ pbx_tip.history[s] = vb
                        /\ Delta(s) = vb - va
                        /\ FitsInt(Delta(s))
                        /\ Delta(s) >= lo - hi /\ Delta(s) <= hi - lo

\* the first getlinestate() call on a line whose ring delivers code 0 and
\* whose tip delivers code 1023: the most negative and the most positive
\* stored value and the largest delta
C23_Witness ==
    /\ ver = "V2" /\ pc = "classify"
    /\ line.ring = 0 /\ line.tip = ADC_FULL_SCALE - 1
    /\ \A s \in WindowSlots :
          /\ pbx_ring.history[s] < 0 /\ pbx_tip.history[s] > 0
          /\ Delta(s) = 121


\* ------------------------------------------------------------------------
\* The two band flags of getlinestate() (V2.0)
\* ------------------------------------------------------------------------
\* the flags and the count getlinestate() has when its for loop ends
WindowFlags ==
    ScanWindow(0, pbx_ring.nextslot, pbx_tip, pbx_ring,
               [onhook |-> TRUE, offhook |-> TRUE, ringing_samples |-> 0])

\* the decision with the OFF_HOOK test made before the ON_HOOK test
DecideOffHookFirst(acc, last) ==
    IF acc.offhook THEN "OFF_HOOK"
    ELSE IF acc.onhook THEN "ON_HOOK"
    ELSE IF acc.ringing_samples >= 2 THEN "RINGING"
    ELSE last

\* C24: when the for loop of getlinestate() has read its NUM_SAMPLES >= 1
\* deltas, onhook and offhook are never both true, and both are false when
\* any delta of the window has a magnitude above 70; so making the OFF_HOOK
\* test before the ON_HOOK test would return the same state, whatever the
\* held state is.
C24_FlagsExclusive ==
    (ver = "V2" /\ pc = "classify") =>
        LET acc == WindowFlags
        IN  /\ NUM_SAMPLES >= 1
            /\ Cardinality(WindowSlots) = NUM_SAMPLES
            /\ ~(acc.onhook /\ acc.offhook)
            /\ (RingingDeltas >= 1 => ~acc.onhook /\ ~acc.offhook)
            /\ \A last \in line_state_t :
                  DecideOffHookFirst(acc, last) = Decide(acc, last)

\* getlinestate() has returned on nine deltas in the off-hook band and one
\* of magnitude above 70: both flags were false and the held ON_HOOK is
\* returned
C24_Witness ==
    /\ ver = "V2" /\ pc = "compare" /\ last_linestate = "ON_HOOK"
    /\ new_linestate = "ON_HOOK"
    /\ RingingDeltas = 1
    /\ Cardinality({s \in WindowSlots : InBand("OFF_HOOK", Delta(s))}) =
          NUM_SAMPLES - 1
    /\ ~WindowFlags.onhook /\ ~WindowFlags.offhook
    /\ getlinestate(pbx_tip, pbx_ring, last_linestate) = "ON_HOOK"

====
